---- MODULE Spec2Model ----
(***************************************************************************)
(* Model of src/star_wars.py: a coordinator (find_starship_rating) and     *)
(* max_concurrency worker tasks sharing an asyncio.Queue of page numbers,  *)
(* an asyncio.Event (found_event), a result dictionary and the module      *)
(* global MAX_PAGE.                                                        *)
(*                                                                         *)
(* The tasks run on one asyncio event loop: code between two awaits is one *)
(* atomic step.  The awaits of a worker are the timed dequeue (line 24)    *)
(* and the page fetch (line 35); the awaits of the coordinator are         *)
(* queue.join() (line 93) and asyncio.gather (line 100).  Each action      *)
(* below is the code that runs from one await to the next.  Which of the   *)
(* tasks that can run is resumed next is the event loop's choice: the      *)
(* model allows every order.                                               *)
(***************************************************************************)
EXTENDS Integers, Sequences, FiniteSets, TLC

\* ------------------------------------------------------------------ bounds
\* Pages 0..LastPage may exist on the server; a larger page number is 404.
LastPage == 3
\* max_concurrency ranges over 1..MaxConcurrency.
MaxConcurrency == 2

\* --------------------------------------------------------------- constants
\* MAX_PAGE=2 at module load (line 6).
InitialMaxPage == 2

\* The sentinel None that the coordinator enqueues (line 97).
Sentinel == -1
\* The value None returned by result_dict.get(..., None) (line 101).
None == "None"

VARIABLES
  starship_name,    \* the target name (a sequence of characters)
  max_concurrency,  \* the number of workers of this search
  MAX_PAGE,         \* the module global (line 6, line 60)
  found_event,      \* asyncio.Event: TRUE when set
  result_dict,      \* the set of (key, value) pairs of result_dict
  queue,            \* asyncio.Queue: the items not yet dequeued
  unfinished,       \* asyncio.Queue._unfinished_tasks
  cpc,              \* the coordinator's position
  retval,           \* the value find_starship_rating returned
  pc,               \* each worker task's position
  page_number,      \* the page each worker holds (line 24)
  server,           \* the starships collection: what a fetch of each page answers
  writes,           \* history: number of assignments to result_dict (line 45)
  scanned,          \* history: the pages whose fetch succeeded
  taken,            \* history: sentinels each worker has dequeued
  puts,             \* history: the page numbers put in the queue, in order
  earlier           \* how an earlier search over the same collection ended

vars == << starship_name, max_concurrency, MAX_PAGE, found_event, result_dict,
           queue, unfinished, cpc, retval, pc, page_number, server, writes, scanned, taken,
           puts, earlier >>

\* ------------------------------------------------------------- page data
\* A name is a sequence of characters; str.lower() maps each character.
LowerChar(c) ==
  CASE c = "X" -> "x"
    [] c = "W" -> "w"
    [] c = "Y" -> "y"
    [] OTHER -> c

\* str.lower() (line 43).
Lower(s) == [i \in DOMAIN s |-> LowerChar(s[i])]

\* The comparison of line 43 as a case-sensitive bug would write it.
NameMatches_exact(name, target) == name = target

\* starship["name"].lower() == starship_name.lower() (line 43).
NameMatches(name, target) == Lower(name) = Lower(target)

Targets == { <<"x", "W">> }

Starship(n, r) == [name |-> n, hyperdrive_rating |-> r]

\* The "results" lists a page may carry.
NoHit == << Starship(<<"y", "w">>, "r0") >>
HitA  == << Starship(<<"y", "w">>, "r0"), Starship(<<"X", "w">>, "r1"),
            Starship(<<"x", "w">>, "r3") >>
HitB  == << Starship(<<"x", "W">>, "r2") >>

\* The decimal text of a page number, as the server writes it in "next".
DigitChar(d) ==
  CASE d = 0 -> "0" [] d = 1 -> "1" [] d = 2 -> "2" [] d = 3 -> "3" [] d = 4 -> "4"
    [] d = 5 -> "5" [] d = 6 -> "6" [] d = 7 -> "7" [] d = 8 -> "8" [] d = 9 -> "9"

DecimalText(n) ==
  IF n < 10 THEN << DigitChar(n) >> ELSE << DigitChar(n \div 10), DigitChar(n % 10) >>

\* data["next"]: absent (None), or the text of the URL's page parameter.
NoNext == [absent |-> TRUE, page |-> << >>]
NextUrl(text) == [absent |-> FALSE, page |-> text]
BadText == << "x" >>

\* What the server may hold for page p: nothing it can serve (raise_for_status
\* raises, line 13), or the JSON of the page.
FetchError == [ok |-> FALSE, results |-> << >>, next |-> NoNext]
Page(r, n) == [ok |-> TRUE, results |-> r, next |-> n]
Responses(p) ==
  { FetchError,
    Page(NoHit, NextUrl(DecimalText(p + 1))),
    Page(NoHit, NoNext),
    Page(NoHit, NextUrl(BadText)),
    Page(HitA, NextUrl(DecimalText(p + 1))),
    Page(HitB, NoNext) }

\* The collections the search may run against: pages 0..LastPage, where a
\* page without "next" is the last one (no page after it can be fetched).
Collections ==
  { c \in [0..LastPage -> UNION { Responses(p) : p \in 0..LastPage }] :
      \A p \in 0..LastPage :
        /\ c[p] \in Responses(p)
        /\ (c[p].ok /\ c[p].next.absent) => \A q \in (p + 1)..LastPage : ~c[q].ok }

\* fetch_page (lines 8-14): the answer for page_number; a page the server
\* does not hold is an HTTP error.
fetch_page(c, p) == IF p \in DOMAIN c THEN c[p] ELSE FetchError

\* ------------------------------------------------------------ pure helpers
\* The loop of lines 42-48: the index of the first starship whose name
\* matches, 0 when the loop ends without a match.
RECURSIVE ScanFrom(_, _, _)
ScanFrom(results, target, i) ==
  IF i > Len(results) THEN 0
  ELSE IF NameMatches(results[i].name, target) THEN i
  ELSE ScanFrom(results, target, i + 1)

FirstMatch(results, target) == ScanFrom(results, target, 1)

\* int() of one character; -1 stands for ValueError.
DigitValue(c) ==
  CASE c = "0" -> 0 [] c = "1" -> 1 [] c = "2" -> 2 [] c = "3" -> 3 [] c = "4" -> 4
    [] c = "5" -> 5 [] c = "6" -> 6 [] c = "7" -> 7 [] c = "8" -> 8 [] c = "9" -> 9
    [] OTHER -> -1

\* int(params["page"][0]) (lines 57-59); -1 stands for the exception raised
\* when the parameter is missing or is no number.
RECURSIVE IntOf(_)
IntOf(text) ==
  IF Len(text) = 0 THEN -1
  ELSE LET d == DigitValue(text[Len(text)]) IN
       IF d < 0 THEN -1
       ELSE IF Len(text) = 1 THEN d
       ELSE LET hi == IntOf(SubSeq(text, 1, Len(text) - 1)) IN
            IF hi < 0 THEN -1 ELSE 10 * hi + d

\* result_dict.get("hyperdrive_rating", None) (line 101).
Get(d) ==
  IF \E kv \in d : kv[1] = "hyperdrive_rating"
    THEN (CHOOSE kv \in d : kv[1] = "hyperdrive_rating")[2]
    ELSE None

\* result_dict["hyperdrive_rating"] = v (line 45).
SetItem(d, v) ==
  { kv \in d : kv[1] # "hyperdrive_rating" } \cup { << "hyperdrive_rating", v >> }

\* range(0, MAX_PAGE+1) put one after the other (lines 80-81).
Seed(m) == [i \in 1..(m + 1) |-> i - 1]

\* One task too many, as range(max_concurrency + 1) would create.
Tasks_one_more(n) == 1..(n + 1)

\* The tasks the list comprehension of lines 85-88 creates.
Tasks(n) == 1..n

\* The worker tasks of the search.
Workers == DOMAIN pc

\* A finished task: it returned, or it ended with an exception.
Finished(w) == pc[w] \in { "returned", "raised" }

\* No earlier search.
NoSearch == [ran |-> FALSE, returns |-> FALSE, value |-> None]

\* ------------------------------------------------------------------- Init
Init ==
  /\ starship_name \in Targets
  /\ max_concurrency \in 1..MaxConcurrency
  /\ MAX_PAGE = InitialMaxPage
  /\ found_event = FALSE
  /\ result_dict = {}
  /\ queue = << >>
  /\ unfinished = 0
  /\ cpc = "called"
  /\ retval = None
  /\ pc = << >>
  /\ page_number = << >>
  /\ server \in Collections
  /\ writes = 0
  /\ scanned = {}
  /\ taken = << >>
  /\ puts = << >>
  /\ earlier = NoSearch

\* ------------------------------------------------------------ coordinator
\* Lines 74-88, up to the await of line 93: fresh event, dictionary and
\* queue, the queue seeded with 0..MAX_PAGE, the worker tasks created.
Setup ==
  /\ cpc = "called"
  /\ found_event' = FALSE
  /\ result_dict' = {}
  /\ queue' = Seed(MAX_PAGE)
  /\ unfinished' = MAX_PAGE + 1
  /\ puts' = Seed(MAX_PAGE)
  /\ pc' = [w \in Tasks(max_concurrency) |-> "created"]
  /\ page_number' = [w \in Tasks(max_concurrency) |-> Sentinel]
  /\ taken' = [w \in Tasks(max_concurrency) |-> 0]
  /\ cpc' = "join"
  /\ UNCHANGED << starship_name, max_concurrency, earlier, MAX_PAGE, retval,
                  server, writes, scanned >>

\* The sentinels put without waiting for queue.join().
JoinReturns_early ==
  /\ cpc = "join"
  /\ queue' = queue \o [i \in 1..max_concurrency |-> Sentinel]
  /\ unfinished' = unfinished + max_concurrency
  /\ cpc' = "gather"
  /\ UNCHANGED << starship_name, max_concurrency, earlier, puts, MAX_PAGE, found_event, result_dict,
                  retval, pc, page_number, server, writes, scanned, taken >>

\* queue.join() returns (line 93), then the sentinels are put (lines 96-97)
\* and the coordinator awaits gather (line 100).
JoinReturns ==
  /\ cpc = "join"
  /\ unfinished = 0
  /\ queue' = queue \o [i \in 1..max_concurrency |-> Sentinel]
  /\ unfinished' = unfinished + max_concurrency
  /\ cpc' = "gather"
  /\ UNCHANGED << starship_name, max_concurrency, earlier, puts, MAX_PAGE, found_event, result_dict,
                  retval, pc, page_number, server, writes, scanned, taken >>

\* The result read without awaiting the tasks.
GatherReturns_nowait ==
  /\ cpc = "gather"
  /\ retval' = Get(result_dict)
  /\ cpc' = "returned"
  /\ UNCHANGED << starship_name, max_concurrency, earlier, puts, MAX_PAGE, found_event, result_dict,
                  queue, unfinished, pc, page_number, server, writes, scanned, taken >>

\* gather returns once every task is finished (return_exceptions=True keeps
\* a task's exception from propagating), and line 101 returns.
GatherReturns ==
  /\ cpc = "gather"
  /\ \A w \in Workers : Finished(w)
  /\ retval' = Get(result_dict)
  /\ cpc' = "returned"
  /\ UNCHANGED << starship_name, max_concurrency, earlier, puts, MAX_PAGE, found_event, result_dict,
                  queue, unfinished, pc, page_number, server, writes, scanned, taken >>

\* ----------------------------------------------------------------- worker
\* The test of line 22 followed by the await of line 24.
LoopTop(ev) == IF ev THEN "returned" ELSE "get"

\* A task's first step: the loop test, then it waits in the timed dequeue.
WorkerStart(w) ==
  /\ pc[w] = "created"
  /\ pc' = [pc EXCEPT ![w] = LoopTop(found_event)]
  /\ UNCHANGED << starship_name, max_concurrency, earlier, puts, MAX_PAGE, found_event, result_dict,
                  queue, unfinished, cpc, retval, page_number, server, writes, scanned, taken >>

\* queue.get() delivers a page number: the worker starts its fetch (line 35).
DequeuePage(w) ==
  /\ pc[w] = "get"
  /\ queue # << >>
  /\ Head(queue) # Sentinel
  /\ queue' = Tail(queue)
  /\ page_number' = [page_number EXCEPT ![w] = Head(queue)]
  /\ pc' = [pc EXCEPT ![w] = "fetch"]
  /\ UNCHANGED << starship_name, max_concurrency, earlier, puts, MAX_PAGE, found_event, result_dict,
                  unfinished, cpc, retval, server, writes, scanned, taken >>

\* The sentinel branch with `continue` in place of `return`.
DequeueSentinel_continues(w) ==
  /\ pc[w] = "get"
  /\ queue # << >>
  /\ Head(queue) = Sentinel
  /\ queue' = Tail(queue)
  /\ unfinished' = unfinished - 1
  /\ pc' = [pc EXCEPT ![w] = IF found_event THEN "returned" ELSE "get"]
  /\ taken' = [taken EXCEPT ![w] = @ + 1]
  /\ UNCHANGED << starship_name, max_concurrency, earlier, puts, MAX_PAGE, found_event, result_dict,
                  cpc, retval, page_number, server, writes, scanned >>

\* queue.get() delivers None: task_done and return (lines 29-32).
DequeueSentinel(w) ==
  /\ pc[w] = "get"
  /\ queue # << >>
  /\ Head(queue) = Sentinel
  /\ queue' = Tail(queue)
  /\ unfinished' = unfinished - 1
  /\ pc' = [pc EXCEPT ![w] = "returned"]
  /\ taken' = [taken EXCEPT ![w] = @ + 1]
  /\ UNCHANGED << starship_name, max_concurrency, earlier, puts, MAX_PAGE, found_event, result_dict,
                  cpc, retval, page_number, server, writes, scanned >>

\* The dequeue without wait_for: no timeout ever ends it.
DequeueTimeout_never(w) == FALSE /\ UNCHANGED vars

\* The 0.5 s of wait_for elapse on an empty queue: return (lines 25-27).
DequeueTimeout(w) ==
  /\ pc[w] = "get"
  /\ queue = << >>
  /\ pc' = [pc EXCEPT ![w] = "returned"]
  /\ UNCHANGED << starship_name, max_concurrency, earlier, puts, MAX_PAGE, found_event, result_dict,
                  queue, unfinished, cpc, retval, page_number, server, writes, scanned, taken >>

\* The except branch resetting the event before it retries the loop.
OnFetchError_clears(w) ==
  /\ unfinished' = unfinished - 1
  /\ found_event' = FALSE
  /\ pc' = [pc EXCEPT ![w] = "get"]
  /\ UNCHANGED << MAX_PAGE, result_dict, queue, writes, puts >>

\* The except branch treating the failure as the end of the search.
OnFetchError_stops(w) ==
  /\ unfinished' = unfinished - 1
  /\ found_event' = TRUE
  /\ pc' = [pc EXCEPT ![w] = "returned"]
  /\ UNCHANGED << MAX_PAGE, result_dict, queue, writes, puts >>

\* Lines 36-39: the fetch raised; task_done, continue (the loop test again).
OnFetchError(w) ==
  /\ unfinished' = unfinished - 1
  /\ pc' = [pc EXCEPT ![w] = LoopTop(found_event)]
  /\ UNCHANGED << MAX_PAGE, found_event, result_dict, queue, writes, puts >>

\* Lines 44-48: a starship matches; store its rating, set the event,
\* task_done, return.
OnMatch(w, starship) ==
  /\ result_dict' = SetItem(result_dict, starship.hyperdrive_rating)
  /\ writes' = writes + 1
  /\ found_event' = TRUE
  /\ unfinished' = unfinished - 1
  /\ pc' = [pc EXCEPT ![w] = "returned"]
  /\ UNCHANGED << MAX_PAGE, queue, puts >>

\* Lines 51-54: no next page; set the event, task_done, return.
OnNoNext(w) ==
  /\ found_event' = TRUE
  /\ unfinished' = unfinished - 1
  /\ pc' = [pc EXCEPT ![w] = "returned"]
  /\ UNCHANGED << MAX_PAGE, result_dict, queue, writes, puts >>

\* The frontier branch without the test of line 62.
OnFrontier_unguarded(w, next) ==
  LET next_page == IntOf(next.page) IN
  IF next_page < 0
    THEN /\ pc' = [pc EXCEPT ![w] = "raised"]
         /\ UNCHANGED << MAX_PAGE, found_event, result_dict, queue, unfinished, writes, puts >>
    ELSE /\ MAX_PAGE' = MAX_PAGE + 1
         /\ queue' = Append(queue, next_page)
         /\ puts' = Append(puts, next_page)
         /\ unfinished' = unfinished + 1 - 1
         /\ pc' = [pc EXCEPT ![w] = IF found_event THEN "returned" ELSE "get"]
         /\ UNCHANGED << found_event, result_dict, writes >>

\* Lines 55-64 when page_number == MAX_PAGE: parse the next page number,
\* advance MAX_PAGE, put the page unless the event is set, task_done, loop.
\* When the parse raises (lines 57-59) the task ends with that exception,
\* before MAX_PAGE is advanced and without task_done.
OnFrontier(w, next) ==
  LET next_page == IntOf(next.page) IN
  IF next_page < 0
    THEN /\ pc' = [pc EXCEPT ![w] = "raised"]
         /\ UNCHANGED << MAX_PAGE, found_event, result_dict, queue, unfinished, writes, puts >>
    ELSE /\ MAX_PAGE' = MAX_PAGE + 1
         /\ queue' = IF found_event THEN queue ELSE Append(queue, next_page)
         /\ puts' = IF found_event THEN puts ELSE Append(puts, next_page)
         /\ unfinished' = IF found_event THEN unfinished - 1 ELSE unfinished + 1 - 1
         /\ pc' = [pc EXCEPT ![w] = LoopTop(found_event)]
         /\ UNCHANGED << found_event, result_dict, writes >>

\* The continuation without the test of line 55: every page with a "next"
\* puts the page it names.
OnInnerPage_enqueues(w) ==
  LET next_page == IntOf(fetch_page(server, page_number[w]).next.page) IN
  /\ queue' = IF found_event \/ next_page < 0 THEN queue ELSE Append(queue, next_page)
  /\ puts' = IF found_event \/ next_page < 0 THEN puts ELSE Append(puts, next_page)
  /\ unfinished' = IF found_event \/ next_page < 0 THEN unfinished - 1 ELSE unfinished
  /\ pc' = [pc EXCEPT ![w] = IF found_event THEN "returned" ELSE "get"]
  /\ UNCHANGED << MAX_PAGE, found_event, result_dict, writes >>

\* Line 64 when page_number # MAX_PAGE: task_done, loop.
OnInnerPage(w) ==
  /\ unfinished' = unfinished - 1
  /\ pc' = [pc EXCEPT ![w] = LoopTop(found_event)]
  /\ UNCHANGED << MAX_PAGE, found_event, result_dict, queue, writes, puts >>

\* Lines 34-64 for the answer `data` to the worker's fetch.
Process(w, data) ==
  IF ~data.ok THEN OnFetchError(w)
  ELSE LET i == FirstMatch(data.results, starship_name) IN
       IF i # 0 THEN OnMatch(w, data.results[i])
       ELSE IF data.next.absent THEN OnNoNext(w)
       ELSE IF page_number[w] = MAX_PAGE THEN OnFrontier(w, data.next)
       ELSE OnInnerPage(w)

\* The fetch of line 35 completes and the worker runs to its next await or
\* to its end.  The local page_number is not read again before line 24
\* assigns it anew: the model forgets it here.
FetchCompletes(w) ==
  /\ pc[w] = "fetch"
  /\ LET data == fetch_page(server, page_number[w]) IN
       /\ scanned' = IF data.ok THEN scanned \cup { page_number[w] } ELSE scanned
       /\ Process(w, data)
  /\ page_number' = [page_number EXCEPT ![w] = Sentinel]
  /\ UNCHANGED << starship_name, max_concurrency, earlier, cpc, retval, server, taken >>

\* ------------------------------------------------------------- the system
Next ==
  \/ Setup
  \/ JoinReturns
  \/ GatherReturns
  \/ \E w \in Workers : WorkerStart(w)
  \/ \E w \in Workers : DequeuePage(w)
  \/ \E w \in Workers : DequeueSentinel(w)
  \/ \E w \in Workers : DequeueTimeout(w)
  \/ \E w \in Workers : FetchCompletes(w)

Spec == Init /\ [][Next]_vars

\* Every step of worker w.
WorkerStep(w) ==
  /\ w \in Workers
  /\ \/ WorkerStart(w)
     \/ DequeuePage(w)
     \/ DequeueSentinel(w)
     \/ DequeueTimeout(w)
     \/ FetchCompletes(w)

\* The event loop runs every task that can run: a created task gets its
\* first step, a timed dequeue ends with an item or with its timeout, a
\* fetch ends with an answer or an error, and the coordinator is resumed
\* when what it awaits is there.
Fairness ==
  /\ WF_vars(Setup)
  /\ WF_vars(JoinReturns)
  /\ WF_vars(GatherReturns)
  /\ \A w \in 1..MaxConcurrency : WF_vars(WorkerStep(w))

FairSpec == Spec /\ Fairness

\* The workers alone are scheduled fairly: the coordinator may stay in
\* queue.join() or put its sentinels as late as it likes.
WorkerFairSpec == Spec /\ WF_vars(Setup) /\ \A w \in 1..MaxConcurrency : WF_vars(WorkerStep(w))

\* The coordinator is blocked in queue.join() for good: every task is
\* finished and the count of unfinished items is not zero.
JoinHangs ==
  /\ cpc = "join"
  /\ unfinished > 0
  /\ \A w \in Workers : Finished(w)

\* The search is over: it returned, or it can take no further step.
SearchOver == cpc = "returned" \/ JoinHangs

\* The same program started again, in a fresh process, on the same
\* collection and target with max_concurrency > 1 (the parameter of line
\* 67), once the search with max_concurrency = 1 is over; how that search
\* ended is kept for comparison.
RunConcurrently ==
  /\ ~earlier.ran
  /\ max_concurrency = 1
  /\ SearchOver
  /\ earlier' = [ran |-> TRUE, returns |-> (cpc = "returned"), value |-> retval]
  /\ max_concurrency' \in 2..MaxConcurrency
  /\ MAX_PAGE' = InitialMaxPage
  /\ found_event' = FALSE
  /\ result_dict' = {}
  /\ queue' = << >>
  /\ unfinished' = 0
  /\ cpc' = "called"
  /\ retval' = None
  /\ pc' = << >>
  /\ page_number' = << >>
  /\ writes' = 0
  /\ scanned' = {}
  /\ taken' = << >>
  /\ puts' = << >>
  /\ UNCHANGED << starship_name, server >>

\* A search with max_concurrency = 1 followed by a search with
\* max_concurrency > 1 over the same collection.
PairInit == Init /\ max_concurrency = 1

PairNext == Next \/ RunConcurrently

PairSpec == PairInit /\ [][PairNext]_vars

\* find_starship_rating called again in the same process once a search
\* has returned (main, line 106, run a second time on the loaded module):
\* the locals of the finished call are left behind, Setup makes new ones;
\* the module global MAX_PAGE is what the finished search left.
SearchAgain ==
  /\ cpc = "returned"
  /\ ~earlier.ran
  /\ earlier' = [ran |-> TRUE, returns |-> TRUE, value |-> retval]
  /\ cpc' = "called"
  /\ retval' = None
  /\ writes' = 0
  /\ scanned' = {}
  /\ UNCHANGED << starship_name, max_concurrency, MAX_PAGE, found_event, result_dict,
                  queue, unfinished, pc, page_number, server, taken, puts >>

AgainNext == Next \/ SearchAgain

\* Two searches, one after the other, in one process.
AgainSpec == Init /\ [][AgainNext]_vars

\* ------------------------------------------------------------------ claims

\* C1: every search terminates: queue.join() returns and then
\* find_starship_rating returns, also when the event is set while page
\* numbers are still in the queue.  A search that has not returned can
\* always take a further step.
C1_SearchReturns == (cpc = "returned") \/ ENABLED Next

\* C2: result_dict["hyperdrive_rating"] is assigned at most once in a search.
C2_AtMostOneWrite == writes <= 1

\* C3: no worker starts a fetch in a state where found_event is set.
C3_NoFetchAfterSignal ==
  [][\A w \in Workers : (pc[w] # "fetch" /\ pc'[w] = "fetch") => ~found_event]_vars

\* ---- C4
\* Equality of names up to letter case, character by character.
SameLetter(a, b) ==
  \/ a = b
  \/ { a, b } \in { { "x", "X" }, { "w", "W" }, { "y", "Y" } }

SameNameIgnoringCase(s, t) ==
  /\ Len(s) = Len(t)
  /\ \A i \in 1..Len(s) : SameLetter(s[i], t[i])

\* The ratings of the items of page p whose name is the target's.
MatchingRatings(p) ==
  { server[p].results[i].hyperdrive_rating :
      i \in { j \in 1..Len(server[p].results) :
                SameNameIgnoringCase(server[p].results[j].name, starship_name) } }

\* The pages of the collection that hold an item with the target's name.
PagesWithTarget == { p \in DOMAIN server : server[p].ok /\ MatchingRatings(p) # {} }

\* C4 as stated: the search returns the rating of an item named like the
\* target when some page of the collection holds one, None when none does.
C4_ReturnsTargetOfCollection ==
  cpc = "returned" =>
    IF PagesWithTarget # {}
      THEN retval \in UNION { MatchingRatings(p) : p \in PagesWithTarget }
      ELSE retval = None

\* C4 amended: the search returns the rating of an item named like the
\* target when a page holding one was fetched successfully, None otherwise;
\* the result is never written unless such a page was fetched.
C4_ReturnsTargetOfFetchedPages ==
  /\ cpc = "returned" =>
       IF PagesWithTarget \cap scanned # {}
         THEN retval \in UNION { MatchingRatings(p) : p \in PagesWithTarget \cap scanned }
         ELSE retval = None
  /\ result_dict # {} => PagesWithTarget \cap scanned # {}
  /\ writes = 0 => result_dict = {}

\* A search returned the rating of the first matching item of a fetched
\* page, while another page holding the target was never fetched.
C4_Witness ==
  /\ cpc = "returned"
  /\ retval = "r1"
  /\ PagesWithTarget \ scanned # {}

\* ---- C5
\* C5: once found_event is set it stays set in every later state.
C5_SignalMonotonic == [][found_event => found_event']_vars

\* The event is set and the search went on to its end.
C5_Witness == found_event /\ cpc = "returned"

\* ---- C6
\* C6: with the workers scheduled fairly, every worker task finishes,
\* whether or not the coordinator ever puts its sentinels.
C6_WorkersFinish == <>(cpc # "called" /\ \A w \in Workers : Finished(w))

\* Every worker returned while the coordinator is still in queue.join() and
\* the event is not set: they left through the idle timeout.
C6_Witness ==
  /\ cpc = "join"
  /\ ~found_event
  /\ max_concurrency > 1
  /\ \A w \in Workers : pc[w] = "returned"

\* ---- C7
\* Worker w's fetch ends with an error in this step.
FetchFails(w) ==
  /\ pc[w] = "fetch"
  /\ pc'[w] # "fetch"
  /\ ~fetch_page(server, page_number[w]).ok

\* C7: a failed fetch marks the page done, leaves found_event, the result,
\* MAX_PAGE and the queue alone and sends the worker back to its loop; the
\* search still returns the target's rating when a page holding the target
\* is fetched.
C7_FetchFailureIsLocal ==
  /\ [][\A w \in Workers :
          FetchFails(w) =>
            /\ unfinished' = unfinished - 1
            /\ found_event' = found_event
            /\ result_dict' = result_dict
            /\ writes' = writes
            /\ MAX_PAGE' = MAX_PAGE
            /\ queue' = queue
            /\ pc'[w] = IF found_event THEN "returned" ELSE "get"]_vars
  /\ [](cpc = "returned" /\ PagesWithTarget \cap scanned # {} => retval # None)

\* A search in which the fetch of a seeded page failed returned the rating.
C7_Witness ==
  /\ cpc = "returned"
  /\ retval # None
  /\ ~server[1].ok

\* ---- C8
\* Worker w dequeues the sentinel in this step.
TakesSentinel(w) ==
  /\ pc[w] = "get"
  /\ queue # << >>
  /\ Head(queue) = Sentinel
  /\ taken'[w] = taken[w] + 1

\* C8: a worker that dequeues the sentinel marks it done and returns at
\* once, leaving found_event, the result and MAX_PAGE alone and starting no
\* fetch; no worker dequeues more than one sentinel.
C8_SentinelExits ==
  /\ [][\A w \in Workers :
          TakesSentinel(w) =>
            /\ pc'[w] = "returned"
            /\ unfinished' = unfinished - 1
            /\ queue' = Tail(queue)
            /\ found_event' = found_event
            /\ result_dict' = result_dict
            /\ MAX_PAGE' = MAX_PAGE
            /\ page_number' = page_number]_vars
  /\ [](\A w \in Workers : taken[w] <= 1)

\* After pages were fetched, each of several workers took one sentinel.
C8_Witness ==
  /\ scanned # {}
  /\ \A w \in Workers : taken[w] = 1
  /\ max_concurrency > 1

\* ---- C9
\* C9: for the same collection and target, the search with
\* max_concurrency > 1 ends, under every interleaving, as the search with
\* max_concurrency = 1 ended: it returns if and only if that one returned,
\* and with the same value.
C9_SameOutcomeAsSequential ==
  (earlier.ran /\ SearchOver) =>
    /\ (cpc = "returned") = earlier.returns
    /\ retval = earlier.value

\* ---- C10
\* Worker w's fetch ends in this step with a page that holds no match and
\* whose next-page token is present but is no page number.
MalformedToken(w) ==
  LET data == fetch_page(server, page_number[w]) IN
  /\ pc[w] = "fetch"
  /\ pc'[w] # "fetch"
  /\ data.ok
  /\ MatchingRatings(page_number[w]) = {}
  /\ ~data.next.absent
  /\ IntOf(data.next.page) < 0

\* C10: a malformed next-page token is handled like an absent one: the
\* worker sets found_event, marks the page done and returns.
C10_MalformedTokenIsNoNext ==
  [][\A w \in Workers :
       MalformedToken(w) =>
         /\ found_event'
         /\ unfinished' = unfinished - 1
         /\ pc'[w] = "returned"]_vars

\* ---- C11
\* C11: a worker task that ended with an exception while it processed a
\* page does not keep the search from completing: the search has returned
\* or can take a further step.
C11_SearchSurvivesWorkerFailure ==
  (\E w \in Workers : pc[w] = "raised") => (cpc = "returned" \/ ENABLED Next)

\* ---- C13
\* The items of q that are page numbers.
PagesIn(q) == { i \in 1..Len(q) : q[i] # Sentinel }

\* C13: every dequeued item is marked done by the worker that took it
\* before that worker dequeues again or ends, and task_done is never called
\* otherwise: the count of unfinished items is the number of items still
\* queued plus the number of workers busy with a page, and never negative.
C13_DonePairedWithDequeue ==
  /\ unfinished >= 0
  /\ cpc # "called" =>
       unfinished = Len(queue) + Cardinality({ w \in Workers : pc[w] = "fetch" })

\* ---- C15
\* C15: the result is written only by a step that takes found_event from
\* unset to set; it is never written in a state where the event is set.
C15_WriterSetsSignal ==
  [][writes' # writes => (~found_event /\ found_event')]_vars

\* ---- C12
\* The workers whose fetch is in flight.
Fetching == { w \in Workers : pc[w] = "fetch" }

\* C12: a search launches exactly max_concurrency workers and at most
\* max_concurrency fetches are in flight.
C12_BoundedPool ==
  cpc # "called" =>
    /\ Cardinality(Workers) = max_concurrency
    /\ Cardinality(Fetching) <= max_concurrency

\* Every worker of a pool of two has a fetch in flight.
C12_Witness == max_concurrency = 2 /\ Cardinality(Fetching) = 2

\* ---- C14
\* C14: in a state where found_event is set no page number is put in the
\* queue.
C14_NoPutAfterSignal ==
  [][found_event =>
       /\ puts' = puts
       /\ Cardinality(PagesIn(queue')) <= Cardinality(PagesIn(queue))]_vars

\* The frontier page was processed with the event set: MAX_PAGE went on,
\* the page it names was not put.
C14_Witness ==
  /\ found_event
  /\ Len(puts) > 0
  /\ MAX_PAGE > puts[Len(puts)]

\* ---- C16
\* C16: MAX_PAGE is the highest page number ever put in the queue.
C16_FrontierIsHighestPut ==
  cpc # "called" =>
    /\ \E i \in 1..Len(puts) : puts[i] = MAX_PAGE
    /\ \A i \in 1..Len(puts) : puts[i] <= MAX_PAGE

\* ---- C17
\* C17: MAX_PAGE moves only in the step of the worker that holds the page
\* equal to MAX_PAGE, by one; pages are put only in such a step; no page
\* number is put twice, and no two workers fetch the same page.
C17_FrontierGrowsWithoutFanOut ==
  /\ [][(MAX_PAGE' # MAX_PAGE \/ puts' # puts) =>
          \/ cpc = "called"
          \/ /\ MAX_PAGE' = MAX_PAGE + 1
             /\ Len(puts') <= Len(puts) + 1
             /\ \E w \in Workers :
                  pc[w] = "fetch" /\ pc'[w] # "fetch" /\ page_number[w] = MAX_PAGE]_vars
  /\ [](\A i, j \in 1..Len(puts) : i # j => puts[i] # puts[j])
  /\ [](\A v, w \in Fetching : v # w => page_number[v] # page_number[w])

\* The frontier grew twice, a page at a time, with two workers.
C17_Witness ==
  /\ max_concurrency = 2
  /\ MAX_PAGE = InitialMaxPage + 2
  /\ Len(puts) = InitialMaxPage + 3

\* ---- C18
\* C18: the coordinator puts its max_concurrency sentinels in a state where
\* no item is unfinished, the queue is empty and no worker holds a page;
\* a sentinel never shares the queue with a page number.
C18_SentinelsAfterDrain ==
  /\ [][(cpc = "join" /\ cpc' = "gather") =>
          /\ unfinished = 0
          /\ queue = << >>
          /\ Fetching = {}
          /\ Len(queue') = max_concurrency]_vars
  /\ []((\E i \in 1..Len(queue) : queue[i] = Sentinel) => PagesIn(queue) = {})

\* The sentinels are in the queue after a drain during which a worker put
\* a new page.
C18_Witness ==
  /\ cpc = "gather"
  /\ Len(puts) > InitialMaxPage + 1
  /\ Len(queue) = max_concurrency

\* ---- C19
\* C19: the coordinator reads the result when every worker has ended; the
\* value returned is the final content of result_dict, and nothing the
\* workers share changes after the read.
C19_ReadAfterWorkers ==
  /\ [](cpc = "returned" => (\A w \in Workers : Finished(w)) /\ retval = Get(result_dict))
  /\ [][cpc = "returned" =>
          UNCHANGED << result_dict, found_event, queue, unfinished, MAX_PAGE, pc, writes,
                       puts >>]_vars

\* A search with two workers returned a rating.
C19_Witness ==
  /\ cpc = "returned"
  /\ max_concurrency = 2
  /\ retval # None

\* ---- C20
\* C20: every search starts from fresh shared state: the event unset, the
\* result empty, the queue seeded with 0..K and MAX_PAGE = K for the
\* initial K, whatever an earlier search did.
C20_SearchStartsFresh ==
  [][(cpc = "called" /\ cpc' = "join") =>
       /\ ~found_event'
       /\ result_dict' = {}
       /\ MAX_PAGE' = InitialMaxPage
       /\ queue' = Seed(InitialMaxPage)]_vars

====
